---------------------------- MODULE Spec2Model ----------------------------
(***************************************************************************)
(* A model of gflashcard.c: the flashcard record, the statistics update,   *)
(* the ordering comparator with the insertion and re-sort built on it, the *)
(* line-oriented text format, and the review session with its exits.       *)
(*                                                                         *)
(* right_rate is a C double; it is modelled as an exact rational           *)
(* <<numerator, denominator>> in lowest terms with a positive denominator. *)
(* A C string made of whole lines is modelled as the sequence of its       *)
(* lines; the NULL string is the one-element sequence <<NullLine>>.        *)
(***************************************************************************)
EXTENDS Integers, Sequences, FiniteSets, TLC

(***************************************************************************)
(* Bounds of the model.                                                    *)
(***************************************************************************)
MaxCalls == 3

MaxRank == 3

MaxSorts == 1

MaxCards == 2

MaxClock == 2

MaxRuns == 2

MaxQuits == 2

(***************************************************************************)
(* Program constants.                                                      *)
(***************************************************************************)
N_LONG_TERM_MEMORY == 10

NULL == 0

(* Addresses: the collection's header node, and the temporary header that  *)
(* sort_flashcard allocates; card k lives at CardNode(k).                  *)
ListHead == 1

SortHead == 2

CardNode(k) == SortHead + k

(***************************************************************************)
(* Rational arithmetic for right_rate.                                     *)
(***************************************************************************)
Abs(x) == IF x < 0 THEN -x ELSE x

RECURSIVE GCD(_, _)
GCD(a, b) == IF b = 0 THEN a ELSE GCD(b, a % b)

Rat(n, d) ==
    LET g == GCD(Abs(n), d)
    IN  IF n = 0 THEN <<0, 1>> ELSE <<n \div g, d \div g>>

RatInt(k) == <<k, 1>>

RatLess(a, b) == a[1] * b[2] < b[1] * a[2]

RatLeq(a, b) == a[1] * b[2] <= b[1] * a[2]

(***************************************************************************)
(* Lines and strings.                                                      *)
(***************************************************************************)
Line(tag, arg) == [tag |-> tag, arg |-> arg]

NullLine == Line("NULL", <<>>)

NullStr == <<NullLine>>

BlankLine == Line("blank", <<>>)

(***************************************************************************)
(* create_flashcard: every numeric field zero, every text field unset.     *)
(***************************************************************************)
create_flashcard ==
    [comment        |-> NullStr,
     question       |-> NullStr,
     answer         |-> NullStr,
     nquiz          |-> 0,
     n_contin_right |-> 0,
     right_rate     |-> RatInt(0),
     prev_time      |-> 0,
     next_time      |-> 0,
     next           |-> NULL]

is_long_term_memory_gt(fc) == fc.n_contin_right > N_LONG_TERM_MEMORY

is_long_term_memory(fc) == fc.n_contin_right >= N_LONG_TERM_MEMORY

StatTriple(fc) == <<fc.nquiz, fc.n_contin_right, fc.right_rate>>

(***************************************************************************)
(* update_statistics(fc, right): the record after the call.                *)
(***************************************************************************)
update_statistics_noprev(fc, right) ==
    LET rate == fc.right_rate
        n    == fc.nquiz + 1
    IN  [fc EXCEPT
            !.nquiz = fc.nquiz + 1,
            !.n_contin_right = IF right THEN fc.n_contin_right + 1 ELSE 0,
            !.right_rate =
                IF right
                THEN Rat(rate[1] * n + 100 * rate[2], rate[2] * (n + 1))
                ELSE IF RatLess(RatInt(0), rate)
                     THEN Rat(rate[1] * n - 100 * rate[2], rate[2] * (n + 1))
                     ELSE RatInt(0)]

update_statistics(fc, right) ==
    LET rate == fc.right_rate
        n    == fc.nquiz
    IN  [fc EXCEPT
            !.nquiz = fc.nquiz + 1,
            !.n_contin_right = IF right THEN fc.n_contin_right + 1 ELSE 0,
            !.right_rate =
                IF right
                THEN Rat(rate[1] * n + 100 * rate[2], rate[2] * (n + 1))
                ELSE IF RatLess(RatInt(0), rate)
                     THEN Rat(rate[1] * n - 100 * rate[2], rate[2] * (n + 1))
                     ELSE RatInt(0)]

(***************************************************************************)
(* is_front_flashcard(fc1, fc2, cmp_time): fc1 is to be placed before fc2. *)
(***************************************************************************)
is_front_flashcard(fc1, fc2, cmp_time) ==
    \/ (cmp_time /\ fc1.next_time < fc2.next_time)
    \/ (/\ ~is_long_term_memory(fc1)
        /\ ~is_long_term_memory(fc2)
        /\ fc1.n_contin_right < fc2.n_contin_right)
    \/ RatLess(fc1.right_rate, fc2.right_rate)

(***************************************************************************)
(* show_statistics(fc): the wording printed.  "count_rate" is the line     *)
(* with a number of questions and a rate, "count_streak_rate" the line     *)
(* with a number of reviews, a streak and a rate.  is_head is fc->question *)
(* taken as a boolean.                                                     *)
(***************************************************************************)
show_statistics(fc) ==
    LET is_head == fc.question # NullStr
    IN  IF is_head THEN "count_rate" ELSE "count_streak_rate"

Printed(node, fc) ==
    [node |-> node, unset |-> fc.question = NullStr,
     wording |-> show_statistics(fc)]

has_flashcard_list(m, list) == list # NULL

has_flashcard(m, list) == list # NULL /\ m[list].next # NULL

(***************************************************************************)
(* The scan of add_flashcard over heap m: starting at (prev, p) it stops   *)
(* at the first p the node is in front of, or at the end.  log collects    *)
(* the comparisons made.  fuel bounds the walk by the number of nodes.     *)
(***************************************************************************)
RECURSIVE AddScan(_, _, _, _, _, _, _)
AddScan(m, node, cmp_time, prev, p, log, fuel) ==
    IF p = NULL \/ fuel = 0
    THEN [prev |-> prev, p |-> p, log |-> log]
    ELSE LET res   == is_front_flashcard(m[node], m[p], cmp_time)
             entry == [cand |-> node, exist |-> p, cmp_time |-> cmp_time,
                       front |-> res]
         IN  IF res
             THEN [prev |-> prev, p |-> p, log |-> Append(log, entry)]
             ELSE AddScan(m, node, cmp_time, p, m[p].next,
                          Append(log, entry), fuel - 1)

AddSlot(m, node, list, cur_time) ==
    AddScan(m, node, cur_time > m[node].next_time, list, m[list].next, <<>>,
            Cardinality(DOMAIN m))

(***************************************************************************)
(* add_flashcard(node, list, cur_time) on heap m: the heap after the call. *)
(***************************************************************************)
add_flashcard_front(m, node, list, cur_time) ==
    LET m1 == [m EXCEPT ![node].next = m[list].next]
    IN  [m1 EXCEPT ![list].next = node]

add_flashcard(m, node, list, cur_time) ==
    LET slot == AddSlot(m, node, list, cur_time)
        m1   == [m EXCEPT ![slot.prev].next = node]
    IN  [m1 EXCEPT ![node].next = slot.p]

(***************************************************************************)
(* del_flashcard(node, list): unlink node if the walk from list meets it.  *)
(***************************************************************************)
RECURSIVE DelScan(_, _, _, _, _)
DelScan(m, node, prev, p, fuel) ==
    IF p = NULL \/ fuel = 0
    THEN m
    ELSE IF p = node
         THEN [m EXCEPT ![prev].next = m[p].next]
         ELSE DelScan(m, node, p, m[p].next, fuel - 1)

del_flashcard(m, node, list) ==
    DelScan(m, node, list, m[list].next, Cardinality(DOMAIN m))

(***************************************************************************)
(* sort_flashcard(list) at clock reading cur_time: every node is unlinked  *)
(* from list in turn and added to a fresh temporary header, whose chain    *)
(* then becomes the list's; the temporary header is freed.                 *)
(***************************************************************************)
RECURSIVE SortLoop(_, _, _, _, _)
SortLoop_first(m, p, list, cur_time, fuel) ==
    IF p = NULL \/ fuel = 0
    THEN m
    ELSE add_flashcard(del_flashcard(m, p, list), p, SortHead, cur_time)

SortLoop(m, p, list, cur_time, fuel) ==
    IF p = NULL \/ fuel = 0
    THEN m
    ELSE LET next == m[p].next
             m1   == del_flashcard(m, p, list)
             m2   == add_flashcard(m1, p, SortHead, cur_time)
         IN  SortLoop(m2, next, list, cur_time, fuel - 1)

Malloc(m, addr) == [a \in DOMAIN m \cup {addr} |->
                        IF a = addr THEN create_flashcard ELSE m[a]]

Free(m, addr) == [a \in DOMAIN m \ {addr} |-> m[a]]

sort_flashcard(m, list, cur_time) ==
    IF ~has_flashcard(m, list)
    THEN m
    ELSE LET m0 == Malloc(m, SortHead)
             m1 == SortLoop(m0, m0[list].next, list, cur_time,
                            Cardinality(DOMAIN m0))
             m2 == [m1 EXCEPT ![list].next = m1[SortHead].next]
         IN  Free(m2, SortHead)

(***************************************************************************)
(* The cards of the collection in list order (addresses).                  *)
(***************************************************************************)
RECURSIVE Chain(_, _, _)
Chain(m, p, fuel) ==
    IF p = NULL \/ fuel = 0 \/ p \notin DOMAIN m
    THEN <<>>
    ELSE <<p>> \o Chain(m, m[p].next, fuel - 1)

Order(m, list) == Chain(m, m[list].next, Cardinality(DOMAIN m))

Precedes(seq, x, y) ==
    \E i, j \in 1..Len(seq) : i < j /\ seq[i] = x /\ seq[j] = y

Range(seq) == {seq[i] : i \in 1..Len(seq)}

(***************************************************************************)
(* The text format.  A line is its leading marker (tag) and its tokens:    *)
(* "#" comment, ">>", "<<", "Q:", "A:", "S:", and the lines no marker      *)
(* matches: "text" (a body line), "blank", and "stat" (a statistics line,  *)
(* whose tokens are numbers).  Every token is a rational.                  *)
(***************************************************************************)
Mark(tag) == Line(tag, <<>>)

cat_string(dst, src) == IF dst = NullStr THEN <<src>> ELSE Append(dst, src)

(* load_info: sscanf("%d %d %lf") assigns the tokens that are there, in    *)
(* order, and leaves the other fields alone; prev_time is stamped with the *)
(* clock.  The two integer tokens of the files considered are integers.    *)
load_info(fc, input, now) ==
    LET tok == IF input.tag = "stat" THEN input.arg ELSE <<>>
    IN  [fc EXCEPT
            !.nquiz = IF Len(tok) >= 1 THEN tok[1][1] ELSE @,
            !.n_contin_right = IF Len(tok) >= 2 THEN tok[2][1] ELSE @,
            !.right_rate = IF Len(tok) >= 3 THEN tok[3] ELSE @,
            !.prev_time = now]

(* One calendar month, in the model's time unit.  gmtime/mktime are taken  *)
(* in a UTC time zone and every month has the same length.                 *)
MonthLen == 1

AddMonth_back(t) == t - MonthLen

AddMonth(t) == t + MonthLen

fix_flashcard(fc, now) ==
    LET prev == IF fc.prev_time = 0 THEN now ELSE fc.prev_time
    IN  [fc EXCEPT
            !.comment = IF @ = NullStr THEN <<>> ELSE @,
            !.question = IF @ = NullStr THEN <<BlankLine>> ELSE @,
            !.answer = IF @ = NullStr THEN <<BlankLine>> ELSE @,
            !.prev_time = prev,
            !.next_time = AddMonth(prev)]

(***************************************************************************)
(* One iteration of load_flashcard's loop on parser state ps = [mem, fc,   *)
(* stage, nalloc, fault, hang]: the branch is chosen by the line's marker  *)
(* in the order of the if-chain.  Using fc while it is NULL is a fault.    *)
(* add_flashcard's scan never ends (hang) when it runs round a cycle of    *)
(* the list without meeting a record the node is in front of.              *)
(***************************************************************************)
ScanHangs(m, node, list, cur_time) ==
    LET slot == AddSlot(m, node, list, cur_time)
    IN  /\ slot.p # NULL
        /\ slot.log # <<>>
        /\ ~slot.log[Len(slot.log)].front

load_line(ps, line, list, cur_time, now) ==
    LET m  == ps.mem
        fc == ps.fc
        bad == [ps EXCEPT !.fault = TRUE]
    IN  IF line.tag = "#" /\ ~has_flashcard(m, list)
        THEN [ps EXCEPT !.mem[list].comment = cat_string(@, line)]
        ELSE IF line.tag = ">>"
        THEN [ps EXCEPT !.mem = Malloc(m, CardNode(ps.nalloc + 1)),
                        !.fc = CardNode(ps.nalloc + 1),
                        !.nalloc = @ + 1]
        ELSE IF line.tag = "#"
        THEN IF fc = NULL THEN bad
             ELSE [ps EXCEPT !.mem[fc].comment = cat_string(@, line)]
        ELSE IF line.tag = "Q:" THEN [ps EXCEPT !.stage = "QUESTION"]
        ELSE IF line.tag = "A:" THEN [ps EXCEPT !.stage = "ANSWER"]
        ELSE IF line.tag = "S:" THEN [ps EXCEPT !.stage = "STATISTICS"]
        ELSE IF line.tag = "<<"
        THEN IF fc = NULL THEN [bad EXCEPT !.stage = "IGNORE"]
             ELSE LET m1 == [m EXCEPT ![fc] = fix_flashcard(@, now)]
                  IN  IF ScanHangs(m1, fc, list, cur_time)
                      THEN [ps EXCEPT !.stage = "IGNORE", !.mem = m1,
                                      !.hang = TRUE]
                      ELSE [ps EXCEPT !.stage = "IGNORE",
                                      !.mem = add_flashcard(m1, fc, list,
                                                            cur_time)]
        ELSE IF ps.stage = "QUESTION"
        THEN IF fc = NULL THEN bad
             ELSE [ps EXCEPT !.mem[fc].question = cat_string(@, line)]
        ELSE IF ps.stage = "ANSWER"
        THEN IF fc = NULL THEN bad
             ELSE [ps EXCEPT !.mem[fc].answer = cat_string(@, line)]
        ELSE IF ps.stage = "STATISTICS"
        THEN IF fc = NULL THEN bad
             ELSE [ps EXCEPT !.mem[fc] = load_info(@, line, now)]
        ELSE ps

(***************************************************************************)
(* printf("%g"): the value rounded to six significant digits.              *)
(***************************************************************************)
RECURSIVE Pow10(_)
Pow10(k) == IF k = 0 THEN 1 ELSE 10 * Pow10(k - 1)

(* the nearest integer to n/d (n >= 0, d > 0), ties to even *)
RoundDiv(n, d) ==
    LET q == n \div d
        r == n % d
    IN  IF 2 * r > d \/ (2 * r = d /\ q % 2 = 1) THEN q + 1 ELSE q

(* the k >= 0 with 10^k <= n/d < 10^(k+1), for n >= d *)
RECURSIVE Magnitude(_, _, _)
Magnitude(n, d, k) ==
    IF n < d * Pow10(k + 1) THEN k ELSE Magnitude(n, d, k + 1)

(* the j >= 1 with 10^(-j) <= n/d < 10^(1-j), for 0 < n < d *)
RECURSIVE Leading(_, _, _)
Leading(n, d, j) ==
    IF n * Pow10(j) >= d THEN j ELSE Leading(n, d, j + 1)

FmtG(r) ==
    LET n == Abs(r[1])
        d == r[2]
        sign == IF r[1] < 0 THEN -1 ELSE 1
    IN  IF n = 0 THEN RatInt(0)
        ELSE IF n < d
        THEN LET j == Leading(n, d, 1)
             IN  Rat(sign * RoundDiv(n * Pow10(5 + j), d), Pow10(5 + j))
        ELSE LET k == Magnitude(n, d, 0)
             IN  IF k <= 5
                 THEN Rat(sign * RoundDiv(n * Pow10(5 - k), d), Pow10(5 - k))
                 ELSE RatInt(sign * RoundDiv(n, d * Pow10(k - 5)) * Pow10(k - 5))

(***************************************************************************)
(* update_data_file: the lines written for list on heap m.                 *)
(***************************************************************************)
CardLines(fc) ==
    <<BlankLine, Mark(">>")>> \o fc.comment \o
    <<Mark("Q:")>> \o fc.question \o
    <<Mark("A:")>> \o fc.answer \o
    <<Mark("S:"),
      Line("stat", <<RatInt(fc.nquiz), RatInt(fc.n_contin_right),
                     FmtG(fc.right_rate), RatInt(fc.prev_time),
                     RatInt(fc.next_time)>>),
      Mark("<<")>>

RECURSIVE CardsLines(_, _)
CardsLines(m, seq) ==
    IF seq = <<>> THEN <<>>
    ELSE CardLines(m[Head(seq)]) \o CardsLines(m, Tail(seq))

update_data_file(m, list) ==
    m[list].comment \o CardsLines(m, Order(m, list))

(***************************************************************************)
(* free_flashcards: the heap without the list's nodes and its header.      *)
(***************************************************************************)
free_flashcards(m, list) ==
    [a \in DOMAIN m \ (Range(Order(m, list)) \cup {list}) |-> m[a]]

VARIABLES
    statRec,     \* the record update_statistics is applied to
    statPre,     \* the record before the last call
    statRight,   \* the judgment passed to the last call
    statCalls,   \* number of calls made
    mem,         \* the heap: address -> Flashcard, over the allocated nodes
    rankNow,     \* the reference time (cur_time) of the ordering runs
    rankOrder,   \* the addresses added so far, in the order they were added
    rankSorts,   \* number of re-sorts made
    rankLog,     \* the comparisons made by the last add_flashcard
    disk,        \* the data file: its lines
    clock,       \* what time(NULL) returns
    pc,          \* where the process is
    flashcards,  \* the global list pointer
    ld_line,     \* load_flashcard: lines read so far
    ld_stage,    \* load_flashcard: stage
    ld_fc,       \* load_flashcard: fc
    ld_nalloc,   \* load_flashcard: cards allocated so far
    ld_cur_time, \* load_flashcard: cur_time
    quiz_p,      \* quiz: the loop's p
    exitCode,    \* the exit status, -1 while running
    how,         \* what ended the session: "normal", "signal", "quit", "die"
    fin,         \* the steps of quit() taken so far
    trace,       \* the cards shown and judged by the session, in order
    printed,     \* what show_statistics printed: for which record, in which wording
    skipped,     \* the cards the session's loop passed over
    loaded,      \* the heap as load_flashcard returned it
    inputs,      \* the data file as each run so far found it
    nquit        \* the number of times quit was entered

statVars == <<statRec, statPre, statRight, statCalls>>

rankVars == <<rankNow, rankOrder, rankSorts, rankLog>>

loadVars == <<ld_line, ld_stage, ld_fc, ld_nalloc, ld_cur_time>>

histVars == <<how, fin, trace, printed, skipped, loaded, inputs, nquit>>

progVars == <<disk, clock, pc, flashcards, loadVars, quiz_p, exitCode, histVars>>

vars == <<statVars, rankVars, mem, progVars>>

IdleStat ==
    /\ statRec = create_flashcard
    /\ statPre = create_flashcard
    /\ statRight = FALSE
    /\ statCalls = 0

EmptyHeap == [a \in {} |-> create_flashcard]

IdleProg ==
    /\ disk = <<>>
    /\ clock = 0
    /\ pc = "idle"
    /\ flashcards = NULL
    /\ ld_line = 0
    /\ ld_stage = "IGNORE"
    /\ ld_fc = NULL
    /\ ld_nalloc = 0
    /\ ld_cur_time = 0
    /\ quiz_p = NULL
    /\ exitCode = -1
    /\ how = "none"
    /\ fin = <<>>
    /\ trace = <<>>
    /\ printed = <<>>
    /\ skipped = {}
    /\ loaded = EmptyHeap
    /\ inputs = <<>>
    /\ nquit = 0

IdleRank ==
    /\ rankNow = 0
    /\ rankOrder = <<>>
    /\ rankSorts = 0
    /\ rankLog = <<>>

(***************************************************************************)
(* SpecStat: update_statistics applied repeatedly to one record whose      *)
(* statistics were read from the data file (load_info): nquiz >= 0 and     *)
(* 0 <= right_rate <= 100.                                                 *)
(***************************************************************************)
StatQuiz == {0, 1, 3, 10}

StatContin == {0, 5, 9}

StatRate == {RatInt(0), RatInt(50), RatInt(80), RatInt(100)}

StatText == <<Line("text", <<RatInt(1)>>)>>

InitStat ==
    /\ \E n \in StatQuiz, s \in StatContin, r \in StatRate :
          statRec = [create_flashcard EXCEPT
                        !.comment = <<>>,
                        !.question = StatText,
                        !.answer = StatText,
                        !.nquiz = n,
                        !.n_contin_right = s,
                        !.right_rate = r,
                        !.prev_time = 1,
                        !.next_time = 2]
    /\ statPre = statRec
    /\ statRight = FALSE
    /\ statCalls = 0
    /\ IdleRank
    /\ IdleProg
    /\ mem = EmptyHeap

UpdateStep(right) ==
    /\ statCalls < MaxCalls
    /\ statPre' = statRec
    /\ statRight' = right
    /\ statRec' = update_statistics(statRec, right)
    /\ statCalls' = statCalls + 1
    /\ UNCHANGED <<rankVars, mem, progVars>>

NextStat == \E right \in BOOLEAN : UpdateStep(right)

SpecStat == InitStat /\ [][NextStat]_vars

(***************************************************************************)
(* C2: for a record that starts with nquiz >= 0 and 0 <= right_rate <= 100,*)
(* after any sequence of update_statistics calls 0 <= right_rate <= 100    *)
(* and n_contin_right >= 0.                                                *)
(***************************************************************************)
C2_AccuracyInRange ==
    /\ RatLeq(RatInt(0), statRec.right_rate)
    /\ RatLeq(statRec.right_rate, RatInt(100))
    /\ statRec.n_contin_right >= 0

(***************************************************************************)
(* C3: with n and a the nquiz and right_rate before the call, the call     *)
(* sets nquiz to n+1, n_contin_right to its successor if right and to 0    *)
(* otherwise, right_rate to (a*n+100)/(n+1) if right, (a*n-100)/(n+1) if   *)
(* wrong and a > 0, 0 if wrong and a = 0; texts, timestamps and the link   *)
(* are unchanged; and the three worked scenarios come out as stated.       *)
(* The rate equations are stated cross-multiplied:                         *)
(*   rate' * (n+1) = a*n +- 100.                                           *)
(***************************************************************************)
RateTimes(r, k) == <<r[1] * k, r[2]>>

RatEq(a, b) == a[1] * b[2] = b[1] * a[2]

RatPlus(a, k) == <<a[1] + k * a[2], a[2]>>

C3_UpdateRule ==
    statCalls > 0 =>
        LET n == statPre.nquiz
            a == statPre.right_rate
        IN  /\ statRec.nquiz = n + 1
            /\ statRight => statRec.n_contin_right = statPre.n_contin_right + 1
            /\ ~statRight => statRec.n_contin_right = 0
            /\ statRight =>
                  RatEq(RateTimes(statRec.right_rate, n + 1),
                        RatPlus(RateTimes(a, n), 100))
            /\ (~statRight /\ RatLess(RatInt(0), a)) =>
                  RatEq(RateTimes(statRec.right_rate, n + 1),
                        RatPlus(RateTimes(a, n), -100))
            /\ (~statRight /\ a = RatInt(0)) => statRec.right_rate = RatInt(0)
            /\ statRec.comment = statPre.comment
            /\ statRec.question = statPre.question
            /\ statRec.answer = statPre.answer
            /\ statRec.prev_time = statPre.prev_time
            /\ statRec.next_time = statPre.next_time
            /\ statRec.next = statPre.next
            /\ (StatTriple(statPre) = <<0, 0, RatInt(0)>> /\ statRight)
                  => StatTriple(statRec) = <<1, 1, RatInt(100)>>
            /\ (StatTriple(statPre) = <<10, 5, RatInt(80)>> /\ ~statRight)
                  => StatTriple(statRec) = <<11, 0, <<700, 11>> >>
            /\ (statPre.nquiz = 3 /\ a = RatInt(0) /\ ~statRight)
                  => StatTriple(statRec) = <<4, 0, RatInt(0)>>

C3_Witness ==
    /\ statCalls > 0
    /\ ~statRight
    /\ StatTriple(statPre) = <<10, 5, RatInt(80)>>
    /\ StatTriple(statRec) = <<11, 0, <<700, 11>> >>

(***************************************************************************)
(* SpecRank: the ordering on its own.  MaxRank cards with statistics and   *)
(* due dates drawn from small sets are added one at a time to an empty     *)
(* collection with add_flashcard, and the collection may then be re-sorted *)
(* with sort_flashcard, all at the reference time rankNow.  The nodes are  *)
(* added in the order of their addresses, which the code never reads: the  *)
(* records are drawn independently for each node, so every sequence of     *)
(* records is added.                                                       *)
(***************************************************************************)
RankCards == {CardNode(k) : k \in 1..MaxRank}

RankTimes == {2}

RankNextTimes == {1, 3}

RankContin == {0, 5, N_LONG_TERM_MEMORY}

RankRate == {RatInt(10), RatInt(50)}

RankRecords ==
    {[create_flashcard EXCEPT
         !.comment = <<>>,
         !.question = StatText,
         !.answer = StatText,
         !.n_contin_right = s,
         !.right_rate = r,
         !.prev_time = 0,
         !.next_time = t] :
       s \in RankContin, r \in RankRate, t \in RankNextTimes}

InitRank ==
    /\ IdleStat
    /\ IdleProg
    /\ \E recs \in [RankCards -> RankRecords] :
          mem = [a \in {ListHead} \cup RankCards |->
                    IF a = ListHead
                    THEN [create_flashcard EXCEPT !.comment = <<>>]
                    ELSE recs[a]]
    /\ rankNow \in RankTimes
    /\ rankOrder = <<>>
    /\ rankSorts = 0
    /\ rankLog = <<>>

RankInsert(node) ==
    /\ node \in RankCards
    /\ node = CardNode(Len(rankOrder) + 1)
    /\ rankSorts = 0
    /\ mem' = add_flashcard(mem, node, ListHead, rankNow)
    /\ rankLog' = AddSlot(mem, node, ListHead, rankNow).log
    /\ rankOrder' = Append(rankOrder, node)
    /\ UNCHANGED <<rankNow, rankSorts, statVars, progVars>>

RankSort ==
    /\ rankSorts < MaxSorts
    /\ mem' = sort_flashcard(mem, ListHead, rankNow)
    /\ rankSorts' = rankSorts + 1
    /\ UNCHANGED <<rankNow, rankOrder, rankLog, statVars, progVars>>

NextRank ==
    \/ \E node \in RankCards : RankInsert(node)
    \/ RankSort

SpecRank == InitRank /\ [][NextRank]_vars

Overdue(fc) == rankNow > fc.next_time

(***************************************************************************)
(* C5: when the candidate is overdue (reference time > its next_time), it  *)
(* ranks before the existing record if and only if its next_time is the    *)
(* smaller one; streak and right_rate have no influence.  Stated of every  *)
(* comparison add_flashcard made.                                          *)
(***************************************************************************)
C5_OverdueByDueDateOnly ==
    \A i \in 1..Len(rankLog) :
        LET e == rankLog[i]
        IN  Overdue(mem[e.cand]) =>
               (e.front <=> mem[e.cand].next_time < mem[e.exist].next_time)

(***************************************************************************)
(* C6: when the candidate is not overdue and neither record is graduated,  *)
(* the candidate ranks before the existing record if and only if its       *)
(* streak is the smaller one.  Stated of every comparison add_flashcard    *)
(* made.                                                                   *)
(***************************************************************************)
C6_StreakWhenNeitherGraduated ==
    \A i \in 1..Len(rankLog) :
        LET e == rankLog[i]
        IN  (/\ ~Overdue(mem[e.cand])
             /\ ~is_long_term_memory(mem[e.cand])
             /\ ~is_long_term_memory(mem[e.exist])) =>
               (e.front <=>
                  mem[e.cand].n_contin_right < mem[e.exist].n_contin_right)

(***************************************************************************)
(* C7: a due card D (next_time before the reference time, streak below     *)
(* 10) precedes a graduated card G with a later next_time, once both are   *)
(* in the collection: after the insertions in either order, and after any  *)
(* re-sort.                                                                *)
(***************************************************************************)
C7_DueBeforeGraduated ==
    \A d, g \in Range(rankOrder) :
        (/\ Overdue(mem[d])
         /\ ~is_long_term_memory(mem[d])
         /\ is_long_term_memory(mem[g])
         /\ mem[g].next_time > mem[d].next_time)
        => Precedes(Order(mem, ListHead), d, g)

(***************************************************************************)
(* C8: the final order, after all cards were added and the collection was  *)
(* re-sorted once, does not depend on the order in which they were added:  *)
(* adding them in any other permutation and re-sorting gives the same      *)
(* sequence of records (so in particular the same as for the permutation   *)
(* that is already sorted).  Records are compared by the fields the        *)
(* ordering reads.                                                         *)
(***************************************************************************)
RECURSIVE AddAll(_, _, _, _)
AddAll(m, seq, list, cur_time) ==
    IF seq = <<>>
    THEN m
    ELSE AddAll(add_flashcard(m, Head(seq), list, cur_time), Tail(seq), list,
                cur_time)

Perms(S) ==
    {p \in [1..Cardinality(S) -> S] : \A i, j \in DOMAIN p : i # j => p[i] # p[j]}

RankKey(fc) == <<fc.next_time, fc.n_contin_right, fc.right_rate>>

KeysOf(m, seq) == [i \in 1..Len(seq) |-> RankKey(m[seq[i]])]

Unlinked(m) == [a \in DOMAIN m |-> [m[a] EXCEPT !.next = NULL]]

FinalOrder(m, seq, cur_time) ==
    LET built  == AddAll(Unlinked(m), seq, ListHead, cur_time)
        sorted == sort_flashcard(built, ListHead, cur_time)
    IN  KeysOf(sorted, Order(sorted, ListHead))

C8_InsertionOrderIndependent ==
    (Range(rankOrder) = RankCards /\ rankSorts = 1) =>
        \A q \in Perms(RankCards) :
            KeysOf(mem, Order(mem, ListHead)) = FinalOrder(mem, q, rankNow)

(***************************************************************************)
(* Spec: one run of the program on a data file, from main after            *)
(* set_signal to the end of the process.                                   *)
(*                                                                         *)
(* The data files are well-formed: an optional header comment line, then   *)
(* up to MaxCards records, each a blank line, ">>", an optional comment    *)
(* line, "Q:", a question line, "A:", an answer line, "S:", a statistics   *)
(* line and "<<".  Record k's lines carry the number k.                    *)
(***************************************************************************)
StatChoices ==
    { <<>>,
      <<RatInt(3), RatInt(9), RatInt(80)>>,
      <<RatInt(12), RatInt(N_LONG_TERM_MEMORY), RatInt(100)>> }

CardChoices == [c : BOOLEAN, s : StatChoices]

QuestionLine(k) == Line("text", <<RatInt(k)>>)

AnswerLine(k) == Line("text", <<RatInt(-k)>>)

CommentLine(k) == Line("#", <<RatInt(k)>>)

CardBlock(k, ch) ==
    <<BlankLine, Mark(">>")>> \o
    (IF ch.c THEN <<CommentLine(k)>> ELSE <<>>) \o
    <<Mark("Q:"), QuestionLine(k), Mark("A:"), AnswerLine(k), Mark("S:"),
      Line("stat", ch.s), Mark("<<")>>

RECURSIVE Blocks(_, _)
Blocks(cs, k) ==
    IF k > Len(cs) THEN <<>> ELSE CardBlock(k, cs[k]) \o Blocks(cs, k + 1)

FileOf(h, cs) == (IF h THEN <<CommentLine(0)>> ELSE <<>>) \o Blocks(cs, 1)

Files ==
    {FileOf(h, cs) :
        h \in BOOLEAN, cs \in UNION {[1..n -> CardChoices] : n \in 0..MaxCards}}

ProgStart ==
    /\ clock = 1
    /\ pc = "open"
    /\ flashcards = NULL
    /\ mem = EmptyHeap
    /\ ld_line = 0
    /\ ld_stage = "IGNORE"
    /\ ld_fc = NULL
    /\ ld_nalloc = 0
    /\ ld_cur_time = 0
    /\ quiz_p = NULL
    /\ exitCode = -1
    /\ how = "none"
    /\ fin = <<>>
    /\ trace = <<>>
    /\ printed = <<>>
    /\ skipped = {}
    /\ loaded = EmptyHeap
    /\ inputs = <<disk>>
    /\ nquit = 0

InitProg == disk \in Files /\ ProgStart

Init == IdleStat /\ IdleRank /\ InitProg

(* time(NULL) never goes back.  The clock is read by load_flashcard before  *)
(* its loop, by load_info and fix_flashcard, and by sort_flashcard: time   *)
(* passes before those reads. *)
Tick ==
    /\ pc \in {"open", "load", "quit_sort"}
    /\ clock < MaxClock
    /\ clock' = clock + 1
    /\ UNCHANGED <<mem, disk, pc, flashcards, loadVars, quiz_p, exitCode,
                   histVars>>
    /\ UNCHANGED <<statVars, rankVars>>

(* load_flashcard up to its loop: the file is opened, the header created,  *)
(* cur_time read *)
LoadOpen ==
    /\ pc = "open"
    /\ mem' = Malloc(mem, ListHead)
    /\ ld_cur_time' = clock
    /\ ld_line' = 0
    /\ ld_stage' = "IGNORE"
    /\ ld_fc' = NULL
    /\ pc' = "load"
    /\ UNCHANGED <<disk, clock, flashcards, ld_nalloc, quiz_p, exitCode,
                   histVars>>
    /\ UNCHANGED <<statVars, rankVars>>

(* one iteration of load_flashcard's loop *)
LoadLine ==
    /\ pc = "load"
    /\ ld_line < Len(disk)
    /\ LET ps == load_line([mem |-> mem, fc |-> ld_fc, stage |-> ld_stage,
                            nalloc |-> ld_nalloc, fault |-> FALSE,
                            hang |-> FALSE],
                           disk[ld_line + 1], ListHead, ld_cur_time, clock)
       IN  /\ mem' = ps.mem
           /\ ld_fc' = ps.fc
           /\ ld_stage' = ps.stage
           /\ ld_nalloc' = ps.nalloc
           /\ ld_line' = ld_line + 1
           /\ pc' = IF ps.fault THEN "crashed"
                    ELSE IF ps.hang THEN "hung" ELSE "load"
    /\ UNCHANGED <<disk, clock, flashcards, ld_cur_time, quiz_p, exitCode,
                   histVars>>
    /\ UNCHANGED <<statVars, rankVars>>

(* end of file: load_flashcard returns the list, main stores it and calls  *)
(* quiz, which ends the process if there is no card *)
LoadDone ==
    /\ pc = "load"
    /\ ld_line = Len(disk)
    /\ flashcards' = ListHead
    /\ loaded' = mem
    /\ IF has_flashcard(mem, ListHead)
       THEN /\ pc' = "loop"
            /\ quiz_p' = mem[ListHead].next
            /\ UNCHANGED <<mem, exitCode, how>>
       ELSE /\ pc' = "exited"
            /\ mem' = Free(mem, ListHead)
            /\ exitCode' = 1
            /\ how' = "die"
            /\ UNCHANGED quiz_p
    /\ UNCHANGED <<disk, clock, loadVars, fin, trace, printed, skipped, inputs, nquit>>
    /\ UNCHANGED <<statVars, rankVars>>

(* quiz's loop on a record in long-term memory: continue *)
LoopSkip ==
    /\ pc = "loop"
    /\ quiz_p # NULL
    /\ is_long_term_memory(mem[quiz_p])
    /\ skipped' = skipped \cup {quiz_p}
    /\ quiz_p' = mem[quiz_p].next
    /\ UNCHANGED <<mem, disk, clock, pc, flashcards, loadVars, exitCode, how,
                   fin, trace, printed, loaded, inputs, nquit>>
    /\ UNCHANGED <<statVars, rankVars>>

Event(ev, node, right, rec, after) ==
    [ev |-> ev, node |-> node, right |-> right,
     contin |-> rec.n_contin_right, after |-> StatTriple(after)]

(* quiz's loop on any other record: show_question, then input_question     *)
(* waits for input *)
LoopShow ==
    /\ pc = "loop"
    /\ quiz_p # NULL
    /\ ~is_long_term_memory(mem[quiz_p])
    /\ trace' = Append(trace, Event("show", quiz_p, FALSE, mem[quiz_p], mem[quiz_p]))
    /\ pc' = "input"
    /\ UNCHANGED <<mem, disk, clock, flashcards, loadVars, quiz_p, exitCode,
                   how, fin, printed, skipped, loaded, inputs, nquit>>
    /\ UNCHANGED <<statVars, rankVars>>

(* input_question reads "<<<": show_answer, then judge_answer waits *)
InputDone ==
    /\ pc = "input"
    /\ pc' = "judge"
    /\ UNCHANGED <<mem, disk, clock, flashcards, loadVars, quiz_p, exitCode,
                   histVars>>
    /\ UNCHANGED <<statVars, rankVars>>

(* judge_answer reads y or n: eval_answer updates the record and prints    *)
(* its statistics, and the header is updated with the same rule; the loop  *)
(* moves on *)
Judge_noheader(right) ==
    /\ pc = "judge"
    /\ LET m1 == [mem EXCEPT ![quiz_p] = update_statistics(@, right)]
           m2 == m1
       IN  /\ mem' = m2
           /\ trace' = Append(trace, Event("judge", quiz_p, right, mem[quiz_p],
                                            m2[quiz_p]))
           /\ printed' = Append(printed, Printed(quiz_p, m1[quiz_p]))
           /\ quiz_p' = m2[quiz_p].next
    /\ pc' = "loop"
    /\ UNCHANGED <<disk, clock, flashcards, loadVars, exitCode, how, fin,
                   skipped, loaded, inputs, nquit>>
    /\ UNCHANGED <<statVars, rankVars>>

Judge(right) ==
    /\ pc = "judge"
    /\ LET m1 == [mem EXCEPT ![quiz_p] = update_statistics(@, right)]
           m2 == [m1 EXCEPT ![ListHead] = update_statistics(@, right)]
       IN  /\ mem' = m2
           /\ trace' = Append(trace, Event("judge", quiz_p, right, mem[quiz_p],
                                            m2[quiz_p]))
           /\ printed' = Append(printed, Printed(quiz_p, m1[quiz_p]))
           /\ quiz_p' = m2[quiz_p].next
    /\ pc' = "loop"
    /\ UNCHANGED <<disk, clock, flashcards, loadVars, exitCode, how, fin,
                   skipped, loaded, inputs, nquit>>
    /\ UNCHANGED <<statVars, rankVars>>

(* the loop is over: quiz prints the header's statistics and returns, main *)
(* returns EXIT_SUCCESS *)
LoopEnd ==
    /\ pc = "loop"
    /\ quiz_p = NULL
    /\ pc' = "exited"
    /\ exitCode' = 0
    /\ how' = "normal"
    /\ printed' = Append(printed, Printed(ListHead, mem[ListHead]))
    /\ UNCHANGED <<mem, disk, clock, flashcards, loadVars, quiz_p, fin, trace,
                   skipped, loaded, inputs, nquit>>
    /\ UNCHANGED <<statVars, rankVars>>

(* the quit command, read by input_question or judge_answer: exec_cmd      *)
(* calls quit *)
QuitCmd ==
    /\ pc \in {"input", "judge"}
    /\ pc' = "quit_sort"
    /\ how' = "quit"
    /\ nquit' = nquit + 1
    /\ UNCHANGED <<mem, disk, clock, flashcards, loadVars, quiz_p, exitCode,
                   fin, trace, printed, skipped, loaded, inputs>>
    /\ UNCHANGED <<statVars, rankVars>>

(* SIGINT or SIGTERM while main is loading or running the session:         *)
(* quit_for_signal calls quit, which ends the process, so what was         *)
(* interrupted is never resumed *)
Signal ==
    /\ pc \in {"open", "load", "loop", "input", "judge"}
    /\ pc' = "quit_sort"
    /\ how' = "signal"
    /\ nquit' = nquit + 1
    /\ UNCHANGED <<mem, disk, clock, flashcards, loadVars, quiz_p, exitCode,
                   fin, trace, printed, skipped, loaded, inputs>>
    /\ UNCHANGED <<statVars, rankVars>>

(* quit: sort_flashcard(flashcards) *)
QuitSort ==
    /\ pc = "quit_sort"
    /\ mem' = sort_flashcard(mem, flashcards, clock)
    /\ fin' = Append(fin, "sort")
    /\ pc' = "quit_write"
    /\ UNCHANGED <<disk, clock, flashcards, loadVars, quiz_p, exitCode, how,
                   trace, printed, skipped, loaded, inputs, nquit>>
    /\ UNCHANGED <<statVars, rankVars>>

(* quit: update_data_file(flashcards, data_file).  fopen(.., "w") empties  *)
(* the file; reading list->comment through a NULL list, or writing a NULL  *)
(* comment with fputs, ends the process there. *)
QuitWrite ==
    /\ pc = "quit_write"
    /\ IF flashcards = NULL \/ mem[flashcards].comment = NullStr
       THEN /\ disk' = <<>>
            /\ pc' = "crashed"
            /\ UNCHANGED fin
       ELSE /\ disk' = update_data_file(mem, flashcards)
            /\ pc' = "quit_free"
            /\ fin' = Append(fin, "write")
    /\ UNCHANGED <<mem, clock, flashcards, loadVars, quiz_p, exitCode, how,
                   trace, printed, skipped, loaded, inputs, nquit>>
    /\ UNCHANGED <<statVars, rankVars>>

(* quit: free_flashcards(flashcards); exit(EXIT_SUCCESS) *)
QuitFree ==
    /\ pc = "quit_free"
    /\ mem' = free_flashcards(mem, flashcards)
    /\ fin' = Append(fin, "free")
    /\ pc' = "exited"
    /\ exitCode' = 0
    /\ UNCHANGED <<disk, clock, flashcards, loadVars, quiz_p, how, trace, printed,
                   skipped, loaded, inputs, nquit>>
    /\ UNCHANGED <<statVars, rankVars>>

Next ==
    \/ Tick
    \/ LoadOpen
    \/ LoadLine
    \/ LoadDone
    \/ LoopSkip
    \/ LoopShow
    \/ InputDone
    \/ \E right \in BOOLEAN : Judge(right)
    \/ LoopEnd
    \/ QuitCmd
    \/ Signal
    \/ QuitSort
    \/ QuitWrite
    \/ QuitFree

Spec == Init /\ [][Next]_vars

(***************************************************************************)
(* SpecSignals: Spec with the signals that arrive while quit is running.   *)
(* The handlers stay installed and quit keeps no record of having been     *)
(* called, so quit_for_signal calls quit again, on the collection as the   *)
(* call it interrupted left it.  MaxQuits bounds the calls of quit in a    *)
(* run.                                                                    *)
(***************************************************************************)
SignalInQuit ==
    /\ pc \in {"quit_sort", "quit_write", "quit_free"}
    /\ nquit < MaxQuits
    /\ pc' = "quit_sort"
    /\ how' = "signal"
    /\ nquit' = nquit + 1
    /\ UNCHANGED <<mem, disk, clock, flashcards, loadVars, quiz_p, exitCode,
                   fin, trace, printed, skipped, loaded, inputs>>
    /\ UNCHANGED <<statVars, rankVars>>

NextSignals == Next \/ SignalInQuit

SpecSignals == Init /\ [][NextSignals]_vars

(***************************************************************************)
(* SpecRuns: the program run again on the file the run before left, when   *)
(* that run loaded the file and saved it without judging any record.       *)
(***************************************************************************)
Rerun ==
    /\ pc = "exited"
    /\ fin = <<"sort", "write", "free">>
    /\ trace = <<>>
    /\ Len(inputs) < MaxRuns
    /\ inputs' = Append(inputs, disk)
    /\ nquit' = 0
    /\ pc' = "open"
    /\ flashcards' = NULL
    /\ mem' = EmptyHeap
    /\ ld_line' = 0
    /\ ld_stage' = "IGNORE"
    /\ ld_fc' = NULL
    /\ ld_nalloc' = 0
    /\ ld_cur_time' = 0
    /\ quiz_p' = NULL
    /\ exitCode' = -1
    /\ how' = "none"
    /\ fin' = <<>>
    /\ skipped' = {}
    /\ loaded' = EmptyHeap
    /\ UNCHANGED <<disk, clock, trace, printed, statVars, rankVars>>

NextRuns == Next \/ Rerun

SpecRuns == Init /\ [][NextRuns]_vars

(***************************************************************************)
(* Reading a data file's lines: the records it holds and their fields.     *)
(***************************************************************************)
IsTag(tag, line) == line.tag = tag

IndicesOf(lines, tag) == {i \in 1..Len(lines) : lines[i].tag = tag}

Min(S) == CHOOSE x \in S : \A y \in S : x <= y

Max(S) == CHOOSE x \in S : \A y \in S : x >= y

CommentsIn(lines) == SelectSeq(lines, LAMBDA l : l.tag = "#")

(* the '#' lines before the first ">>" *)
HeaderCommentOf(lines) ==
    LET opens == IndicesOf(lines, ">>")
    IN  IF opens = {} THEN CommentsIn(lines)
        ELSE CommentsIn(SubSeq(lines, 1, Min(opens) - 1))

(* the record of the ">>" line at index b: its lines up to its "<<" *)
RecordAt(lines, b) ==
    LET e  == Min({j \in IndicesOf(lines, "<<") : j > b})
        q  == Min({j \in IndicesOf(lines, "Q:") : j > b})
        a  == Min({j \in IndicesOf(lines, "A:") : j > b})
        st == Min({j \in IndicesOf(lines, "S:") : j > b})
        tk == lines[st + 1].arg
    IN  [comment  |-> CommentsIn(SubSeq(lines, b, e)),
         question |-> SubSeq(lines, q + 1, a - 1),
         answer   |-> SubSeq(lines, a + 1, st - 1),
         stats    |-> IF Len(tk) >= 3 THEN SubSeq(tk, 1, 3)
                      ELSE <<RatInt(0), RatInt(0), RatInt(0)>>]

RecordsOf(lines) == {RecordAt(lines, b) : b \in IndicesOf(lines, ">>")}

Written(fc) ==
    <<RatInt(fc[1]), RatInt(fc[2]), FmtG(fc[3])>>

Cards(m) == Range(Order(m, ListHead))

(***************************************************************************)
(* C1: a session over a non-empty collection that ends normally, and one   *)
(* that ends on a signal, both go through the finalize step before the     *)
(* process exits: re-sort, write the data file, release every record; so   *)
(* at exit every statistics update of the session is in the data file.     *)
(***************************************************************************)
C1_BothExitsFinalize ==
    (/\ pc = "exited"
     /\ how \in {"normal", "signal"}
     /\ has_flashcard(loaded, ListHead)
     /\ \E i \in 1..Len(trace) : trace[i].ev = "judge")
    => /\ fin = <<"sort", "write", "free">>
       /\ mem = EmptyHeap
       /\ \A i \in 1..Len(trace) :
             trace[i].ev = "judge" =>
                \E r \in RecordsOf(disk) :
                    /\ r.question = loaded[trace[i].node].question
                    /\ r.stats = Written(trace[i].after)

(***************************************************************************)
(* C4: the session's loop skips a record exactly when its streak is at     *)
(* least 10 when the loop reaches it: no record shown or judged had a      *)
(* streak of 10 or more at that moment, and a skipped record had; a        *)
(* skipped record is neither shown nor judged, its nquiz, n_contin_right   *)
(* and right_rate stay as loaded, it stays in the collection, and a data   *)
(* file written by this run holds it with those statistics.                *)
(***************************************************************************)
C4_GraduatedSkipped ==
    /\ \A i \in 1..Len(trace) : trace[i].contin < 10
    /\ \A c \in skipped :
          /\ loaded[c].n_contin_right >= 10
          /\ \A i \in 1..Len(trace) : trace[i].node # c
          /\ c \in DOMAIN mem => StatTriple(mem[c]) = StatTriple(loaded[c])
          /\ pc # "exited" => c \in Cards(mem)
          /\ "write" \in Range(fin) =>
                \E r \in RecordsOf(disk) :
                    /\ r.question = loaded[c].question
                    /\ r.answer = loaded[c].answer
                    /\ r.stats = Written(StatTriple(loaded[c]))

C4_Witness ==
    /\ skipped # {}
    /\ "write" \in Range(fin)
    /\ \E i \in 1..Len(trace) : trace[i].ev = "judge"

(***************************************************************************)
(* C10: when the file has been parsed, the header's comment is exactly the *)
(* '#' lines before the first ">>" line, and every record's comment is     *)
(* exactly the '#' lines between its ">>" and its "<<", the first record's *)
(* included.                                                               *)
(***************************************************************************)
TextOf(str) == IF str = NullStr THEN <<>> ELSE str

C10_CommentsGoToTheirRecord ==
    pc \in {"loop", "input", "judge"} =>
        /\ TextOf(mem[ListHead].comment) = HeaderCommentOf(disk)
        /\ \A c \in Cards(mem) :
              \E r \in RecordsOf(disk) :
                  r.question = mem[c].question /\ r.comment = mem[c].comment

(***************************************************************************)
(* C9: with y the file written after parsing x and z the file written      *)
(* after parsing y, the header comment of y and z is the same and so are   *)
(* the records with their comment, question, answer, nquiz, n_contin_right *)
(* and right_rate.                                                         *)
(***************************************************************************)
C9_RoundTripFixedPoint ==
    (/\ Len(inputs) = 2
     /\ pc = "exited"
     /\ fin = <<"sort", "write", "free">>
     /\ trace = <<>>)
    => /\ HeaderCommentOf(disk) = HeaderCommentOf(inputs[2])
       /\ RecordsOf(disk) = RecordsOf(inputs[2])

(***************************************************************************)
(* C11: when the parsed file holds no card record, the process ends with a *)
(* non-zero exit status as soon as the session starts: no question has     *)
(* been shown, nothing has been judged, the header's statistics are as     *)
(* created, nothing of the finalize step has run and the data file is the  *)
(* file the run started with.                                              *)
(***************************************************************************)
C11_EmptyCollectionFatal ==
    (flashcards # NULL /\ loaded[ListHead].next = NULL)
    => /\ pc = "exited"
       /\ how = "die"
       /\ exitCode # 0
       /\ trace = <<>>
       /\ skipped = {}
       /\ StatTriple(loaded[ListHead]) = <<0, 0, <<0, 1>>>>
       /\ fin = <<>>
       /\ disk = inputs[1]
       /\ mem = EmptyHeap

C11_Witness ==
    /\ pc = "exited"
    /\ how = "die"
    /\ flashcards # NULL
    /\ loaded[ListHead].next = NULL
    /\ IndicesOf(disk, "#") # {}

(***************************************************************************)
(* C12: a run that a signal ends, at whatever point after the handlers     *)
(* were installed, goes through the finalize step and leaves in the data   *)
(* file every record the file held when the run started: the file is not   *)
(* left empty or cut short.                                                *)
(***************************************************************************)
QuestionsOf(lines) == {r.question : r \in RecordsOf(lines)}

C12_SignalLosesNoRecord ==
    (/\ how = "signal"
     /\ pc \in {"exited", "crashed"}
     /\ RecordsOf(inputs[1]) # {})
    => /\ pc = "exited"
       /\ "write" \in Range(fin)
       /\ disk # <<>>
       /\ QuestionsOf(inputs[1]) \subseteq QuestionsOf(disk)

(***************************************************************************)
(* SpecParse: load_flashcard on files whose marker lines come in any       *)
(* order.  A file is up to MaxChunks pieces, each a whole record or a      *)
(* stray piece: a comment line, an opening or closing marker alone, a      *)
(* question or a statistics section with no marker around it.              *)
(***************************************************************************)
MaxChunks == 4

ParseStats ==
    { <<RatInt(3), RatInt(9), RatInt(80)>>,
      <<RatInt(12), RatInt(N_LONG_TERM_MEMORY), RatInt(100)>>,
      <<RatInt(1), RatInt(0), RatInt(10)>> }

ParseChunks ==
    {<<Mark(">>"), Mark("S:"), Line("stat", st), Mark("<<")>> : st \in ParseStats}
    \cup {<<Mark("S:"), Line("stat", st)>> : st \in ParseStats}
    \cup {<<CommentLine(0)>>, <<Mark(">>")>>, <<Mark("<<")>>,
          <<Mark("Q:"), QuestionLine(1)>>}

RECURSIVE Flatten(_)
Flatten(chunks) ==
    IF chunks = <<>> THEN <<>> ELSE Head(chunks) \o Flatten(Tail(chunks))

ParseFiles ==
    {Flatten(cs) : cs \in UNION {[1..n -> ParseChunks] : n \in 0..MaxChunks}}

InitParse == IdleStat /\ IdleRank /\ disk \in ParseFiles /\ ProgStart

NextParse ==
    \/ LoadOpen
    \/ LoadLine
    \/ LoadDone

SpecParse == InitParse /\ [][NextParse]_vars

(* the records a "<<" line has closed: fix_flashcard has set their next_time *)
Closed(m) == {c \in DOMAIN m \ {ListHead, SortHead} : m[c].next_time # 0}

(* the chain from list ends and meets no node twice *)
IsList(m, list) ==
    LET o == Order(m, list)
    IN  /\ Cardinality(Range(o)) = Len(o)
        /\ Len(o) < Cardinality(DOMAIN m)

(***************************************************************************)
(* C13: whatever the order of the lines of the file - a "<<" with no open  *)
(* record, two "<<" for one record, body or comment lines outside a        *)
(* record, a ">>" inside a record - parsing ends without a fault, and the  *)
(* collection it returns is a finite chain holding every closed record     *)
(* exactly once.                                                           *)
(***************************************************************************)
C13_MalformedInputIgnored ==
    /\ pc \notin {"crashed", "hung"}
    /\ flashcards # NULL =>
          /\ IsList(loaded, ListHead)
          /\ Range(Order(loaded, ListHead)) = Closed(loaded)

(***************************************************************************)
(* C14: every statistics line printed has the header wording (questions    *)
(* reviewed, accuracy) exactly when the record it is printed for has no    *)
(* question text, and the per-card wording (reviews, streak, accuracy)     *)
(* exactly when the record has one.                                        *)
(***************************************************************************)
C14_WordingByQuestion ==
    \A i \in 1..Len(printed) :
        /\ printed[i].wording = "count_rate" <=> printed[i].unset
        /\ printed[i].wording = "count_streak_rate" <=> ~printed[i].unset

(***************************************************************************)
(* C15: in one run of the process each part of the finalize step - the     *)
(* re-sort, the writing of the data file, the release of the records - is  *)
(* performed at most once on the collection, even when a signal arrives    *)
(* while the finalize step is in progress.                                 *)
(***************************************************************************)
CountIn(seq, x) == Cardinality({i \in 1..Len(seq) : seq[i] = x})

C15_FinalizeAtMostOnce ==
    flashcards # NULL =>
        /\ CountIn(fin, "sort") <= 1
        /\ CountIn(fin, "write") <= 1
        /\ CountIn(fin, "free") <= 1

(***************************************************************************)
(* C16: the header's aggregate is updated once per judgment: while the     *)
(* collection is held its nquiz is the number of judgments made and its    *)
(* right_rate is within 0..100.  In a session run to the end of the loop   *)
(* the records judged are, in the collection's order, exactly the records  *)
(* whose streak was below 10 when the session started, each once, and the  *)
(* header's nquiz is their number.                                         *)
(***************************************************************************)
Judged == SelectSeq(trace, LAMBDA e : e.ev = "judge")

NodesOf(events) == [i \in 1..Len(events) |-> events[i].node]

DueAtStart ==
    SelectSeq(Order(loaded, ListHead),
              LAMBDA c : loaded[c].n_contin_right < N_LONG_TERM_MEMORY)

C16_EachDueCardJudgedOnce ==
    /\ (flashcards # NULL /\ ListHead \in DOMAIN mem) =>
          /\ mem[ListHead].nquiz = Len(Judged)
          /\ RatLeq(RatInt(0), mem[ListHead].right_rate)
          /\ RatLeq(mem[ListHead].right_rate, RatInt(100))
    /\ (pc = "exited" /\ how = "normal") =>
          /\ NodesOf(Judged) = DueAtStart
          /\ mem[ListHead].nquiz = Len(DueAtStart)

C16_Witness ==
    /\ pc = "exited"
    /\ how = "normal"
    /\ Len(Judged) = 2
    /\ \E i \in 1..2 : ~Judged[i].right
    /\ \E i \in 1..2 : Judged[i].right

(***************************************************************************)
(* C17: add_flashcard on a record that is not in the collection puts it    *)
(* right before the first record of the collection it ranks before, or at  *)
(* the end when there is none (so after every record it ties with); the    *)
(* records that were in the collection keep their relative order, none is  *)
(* lost or met twice, no field of a record other than the links changes,   *)
(* and the header is still the head.  Stated of every step that adds a     *)
(* record.                                                                 *)
(***************************************************************************)
Without(seq, x) == SelectSeq(seq, LAMBDA y : y # x)

PositionIn(seq, x) == CHOOSE i \in 1..Len(seq) : seq[i] = x

C17_AddKeepsOrder ==
    [][Len(rankOrder') = Len(rankOrder) + 1 =>
        LET node == rankOrder'[Len(rankOrder')]
            old  == Order(mem, ListHead)
            new  == Order(mem', ListHead)
            k    == PositionIn(new, node)
            cmp  == rankNow > mem[node].next_time
        IN  /\ node \notin Range(old)
            /\ CountIn(new, node) = 1
            /\ Without(new, node) = old
            /\ Len(new) = Len(old) + 1
            /\ \A i \in 1..(k - 1) :
                  ~is_front_flashcard(mem[node], mem[new[i]], cmp)
            /\ k < Len(new) =>
                  is_front_flashcard(mem[node], mem[new[k + 1]], cmp)
            /\ ListHead \notin Range(new)
            /\ mem'[new[Len(new)]].next = NULL
            /\ Unlinked(mem') = Unlinked(mem)]_vars

C17_Witness ==
    /\ Len(rankOrder) = 3
    /\ rankSorts = 0
    /\ Order(mem, ListHead)[2] = rankOrder[3]
    /\ Len(Order(mem, ListHead)) = 3

(***************************************************************************)
(* C18: sort_flashcard leaves the same records in the collection, each     *)
(* once, in a chain that ends; the header is the same record with the same *)
(* comment and statistics, no field of a card other than its link changes, *)
(* and no node is allocated or freed on balance.  On a collection with no  *)
(* card nothing changes at all.  Stated of every step that re-sorts.       *)
(***************************************************************************)
C18_SortIsPermutation ==
    [][rankSorts' = rankSorts + 1 =>
        LET old == Order(mem, ListHead)
            new == Order(mem', ListHead)
        IN  /\ Len(new) = Len(old)
            /\ Range(new) = Range(old)
            /\ Cardinality(Range(new)) = Len(new)
            /\ new # <<>> => mem'[new[Len(new)]].next = NULL
            /\ ListHead \notin Range(new)
            /\ DOMAIN mem' = DOMAIN mem
            /\ Unlinked(mem') = Unlinked(mem)
            /\ old = <<>> => mem' = mem]_vars

C18_Witness ==
    /\ rankSorts = 1
    /\ Len(rankOrder) = 3
    /\ Len(Order(mem, ListHead)) = 3
    /\ Order(mem, ListHead) #
          Order(AddAll(Unlinked(mem), rankOrder, ListHead, rankNow), ListHead)

(***************************************************************************)
(* C19: no record of the collection is overdue with respect to the         *)
(* reference time load_flashcard read before its loop: its prev_time is a  *)
(* clock reading not before that time and its next_time is one month       *)
(* later, so the reference time is not after its next_time.  The order of  *)
(* the loaded collection is therefore the order the insertions give when   *)
(* due dates are never compared: it depends on streak, graduation and      *)
(* right_rate only.                                                        *)
(***************************************************************************)
CreationOrder(m) ==
    [i \in 1..Cardinality(DOMAIN m \ {ListHead}) |-> CardNode(i)]

C19_NoCardOverdueAtLoad ==
    /\ ListHead \in DOMAIN mem =>
          \A c \in Cards(mem) :
              /\ mem[c].prev_time >= ld_cur_time
              /\ mem[c].prev_time <= clock
              /\ mem[c].next_time = mem[c].prev_time + MonthLen
              /\ ~(ld_cur_time > mem[c].next_time)
    /\ flashcards # NULL =>
          Order(loaded, ListHead) =
              Order(AddAll(Unlinked(loaded), CreationOrder(loaded), ListHead, 0),
                    ListHead)

C19_Witness ==
    /\ pc = "loop"
    /\ Len(Order(mem, ListHead)) = 2
    /\ \E c \in Cards(mem) : mem[c].prev_time > ld_cur_time
    /\ \E c \in Cards(mem) : mem[c].prev_time = ld_cur_time

=============================================================================
